---- MODULE Spec2Model ----
(***************************************************************************)
(* Ground-truth synthesis pipeline of cbn.pytorch, dataset/cbn/cbn_tt.py.  *)
(*                                                                         *)
(* The module holds several specifications over one set of variables:      *)
(*   SpecScale   scale_aligned / random_scale / scale_aligned_short        *)
(*   SpecCrop    random_crop_padding on one raster stack                   *)
(*   SpecShrink  shrink, one polygon per step                              *)
(*   SpecWords   the word label table built by prepare_train_data          *)
(*   SpecTrain   prepare_train_data, stage by stage                        *)
(*   SpecCalls   concurrent prepare_train_data / prepare_test_data calls   *)
(*               on one dataset object                                     *)
(*   SpecRun     train_cbn.py main: construction, then the training loop   *)
(* Rasters are small grids: one cell stands for one pixel.  Calls into     *)
(* cv2 / pyclipper are modelled by what they return (a filled region, an   *)
(* offset ring or an exception), drawn from the inputs.                    *)
(***************************************************************************)
EXTENDS Integers, Sequences, FiniteSets, TLC

VARIABLES
    (* scale normalisation *)
    sc_pc, sc_h, sc_w, sc_short, sc_scale, sc_out_h, sc_out_w,
    (* the record prepare_test_data returns                               *)
    sc_data,
    (* shrink: its position, bboxes, the loop index, shrinked_bboxes and  *)
    (* whether the local name shrinked_bbox is bound                      *)
    sh_pc, sh_bboxes, sh_idx, shrinked_bboxes, sh_bound,
    (* random_crop_padding: its position, the raster stack imgs, the      *)
    (* target_size, the branch taken, the crop origin and the stack       *)
    (* returned                                                           *)
    cr_pc, cr_imgs, cr_target, cr_branch, cr_ij, cr_out,
    (* prepare_train_data: its position and the sample's words, word      *)
    (* label table and word mask                                          *)
    tr_pc, words, gt_words, word_mask,
    (* the configuration, the image, the polygons, the rasters drawn from *)
    (* them, the box table and the record returned                        *)
    is_transform, with_rec, img_size, img, bboxes,
    (* the annotation of the sample as get_ann read it from the file      *)
    annotation,
    gt_instance, training_mask, gt_kernels, gt_distmaps,
    gt_instance_before_crop, gt_bboxes, data,
    (* the dataset object built by CBN_TT.__init__, and the calls of its  *)
    (* prepare_* methods in flight: each call's position, index, method,  *)
    (* the objects its local names are bound to, and the in-place writes  *)
    (* done so far                                                        *)
    dataset, call_pc, call_index, call_method, call_env, written,
    (* train_cbn.py main: its position, cfg.train_cfg (schedule, epoch),  *)
    (* len(train_loader), start_iter, the loop counters epoch and iter,   *)
    (* the batches fetched, the optimizer steps taken, the learning rate  *)
    (* of the optimizer's parameter groups and the exception that ended   *)
    (* the run                                                            *)
    run_pc, schedule, cfg_epoch, loader_len, start_iter, epoch, iter,
    fetched, steps, lr, run_error

scaleVars == <<sc_pc, sc_h, sc_w, sc_short, sc_scale, sc_out_h, sc_out_w, sc_data>>
shrinkVars == <<sh_pc, sh_bboxes, sh_idx, shrinked_bboxes, sh_bound>>

cropVars == <<cr_pc, cr_imgs, cr_target, cr_branch, cr_ij, cr_out>>

wordVars == <<words, gt_words, word_mask>>

cfgVars == <<is_transform, with_rec, img_size, annotation>>
rasterVars == <<img, gt_instance, training_mask, gt_kernels, gt_distmaps>>
trainVars == <<cfgVars, bboxes, rasterVars, gt_instance_before_crop, gt_bboxes, data>>

callVars == <<dataset, call_pc, call_index, call_method, call_env, written>>
runVars == <<run_pc, schedule, cfg_epoch, loader_len, start_iter, epoch, iter,
             fetched, steps, lr, run_error>>
sessionVars == <<callVars, runVars>>

vars == <<scaleVars, shrinkVars, cropVars, tr_pc, wordVars, trainVars, sessionVars>>

Min(a, b) == IF a < b THEN a ELSE b
Max(a, b) == IF a > b THEN a ELSE b

(***************************************************************************)
(* Scale normalisation                                                     *)
(***************************************************************************)

\* Largest source height/width of SpecScale.
MaxDim == 5
\* Largest short_size of SpecScale.
MaxShort == 40

\* The stride the output dimensions are aligned to.
Stride == 32

\* np.array([0.7, ..., 1.3]) of random_scale, in tenths.
RandomScaleSet == {7, 8, 9, 10, 11, 12, 13}

\* int(dim * scale + 0.5) for the non-negative rational scale = num / den.
\* (The source computes it in double precision; the two agree unless
\* dim*scale+0.5 lies within rounding error of an integer.)
ScaledDim(dim, num, den) == (2 * dim * num + den) \div (2 * den)

\* Align32 without the remainder test: a multiple of 32 is raised too.
Align32_Always(x) == x + (Stride - (x % Stride))

\* lines 99-102: "if h % 32 != 0: h = h + (32 - h % 32)".
Align32(x) == IF x % Stride # 0 THEN x + (Stride - (x % Stride)) ELSE x

\* scale_aligned(img, scale): the (h, w) handed to cv2.resize.
scale_aligned(h, w, num, den) ==
    <<Align32(ScaledDim(h, num, den)), Align32(ScaledDim(w, num, den))>>

\* scale_aligned_short scaled by the longer side.
scale_aligned_short_ByLonger(h, w, short) ==
    LET m == Max(h, w)
    IN  <<Align32(ScaledDim(h, short, m)), Align32(ScaledDim(w, short, m))>>

\* scale_aligned_short(img, short_size): scale = short_size * 1.0 / min(h, w).
scale_aligned_short(h, w, short) ==
    LET m == Min(h, w)
    IN  <<Align32(ScaledDim(h, short, m)), Align32(ScaledDim(w, short, m))>>

ShrinkIdle ==
    /\ sh_pc = "idle"
    /\ sh_bboxes = <<>>
    /\ sh_idx = 0
    /\ shrinked_bboxes = <<>>
    /\ sh_bound = FALSE

CropIdle ==
    /\ cr_pc = "idle"
    /\ cr_imgs = <<>>
    /\ cr_target = <<0, 0>>
    /\ cr_branch = "none"
    /\ cr_ij = <<0, 0>>
    /\ cr_out = <<>>

WordIdle ==
    /\ words = <<>>
    /\ gt_words = <<>>
    /\ word_mask = <<>>

NoRaster == [h |-> 0, w |-> 0, px |-> <<>>]

RasterIdle ==
    /\ is_transform = FALSE
    /\ with_rec = FALSE
    /\ img_size = <<0, 0>>
    /\ annotation = <<>>
    /\ img = NoRaster
    /\ bboxes = <<>>
    /\ gt_instance = NoRaster
    /\ training_mask = NoRaster
    /\ gt_kernels = <<>>
    /\ gt_distmaps = <<>>
    /\ gt_instance_before_crop = NoRaster
    /\ gt_bboxes = <<>>
    /\ data = <<>>

TrainIdle ==
    /\ tr_pc = "idle"
    /\ WordIdle
    /\ RasterIdle

CallIdle ==
    /\ dataset = <<>>
    /\ call_pc = <<>>
    /\ call_index = <<>>
    /\ call_method = <<>>
    /\ call_env = <<>>
    /\ written = {}

NoError == [type |-> "none", raised_in |-> "none"]

RunIdle ==
    /\ run_pc = "idle"
    /\ schedule = <<>>
    /\ cfg_epoch = 0
    /\ loader_len = 0
    /\ start_iter = 0
    /\ epoch = 0
    /\ iter = 0
    /\ fetched = 0
    /\ steps = 0
    /\ lr = <<>>
    /\ run_error = NoError

SessionIdle == CallIdle /\ RunIdle

ScaleInit ==
    /\ sc_pc = "loaded"
    /\ sc_h \in 1..MaxDim
    /\ sc_w \in 1..MaxDim
    /\ sc_short \in 1..MaxShort
    /\ sc_scale = <<1, 1>>
    /\ sc_out_h = 0
    /\ sc_out_w = 0
    /\ sc_data = <<>>
    /\ ShrinkIdle
    /\ CropIdle
    /\ TrainIdle
    /\ SessionIdle

ScaleIdle ==
    /\ sc_pc = "idle"
    /\ sc_h = 0
    /\ sc_w = 0
    /\ sc_short = 0
    /\ sc_scale = <<1, 1>>
    /\ sc_out_h = 0
    /\ sc_out_w = 0
    /\ sc_data = <<>>

\* random_scale(img, short_size): scale = choice(random_scale) * short / min(h, w).
random_scale ==
    /\ sc_pc = "loaded"
    /\ \E f \in RandomScaleSet :
         LET num == f * sc_short
             den == 10 * Min(sc_h, sc_w)
             out == scale_aligned(sc_h, sc_w, num, den)
         IN  /\ sc_scale' = <<num, den>>
             /\ sc_out_h' = out[1]
             /\ sc_out_w' = out[2]
    /\ sc_pc' = "scaled"
    /\ UNCHANGED <<sessionVars, sc_h, sc_w, sc_short, sc_data, shrinkVars, cropVars, tr_pc, wordVars, trainVars>>

\* lines 548-561: img_meta gets org_img_size from the loaded image and
\* img_size from the rescaled one; the image goes through convert('RGB'),
\* ToTensor and Normalize; the record holds the two.
TestRecord(h, w, out) ==
    [imgs |-> [h |-> out[1], w |-> out[2],
               passes |-> <<"scale_aligned_short", "convert", "ToTensor", "Normalize">>],
     img_metas |-> [org_img_size |-> <<h, w>>, img_size |-> out]]

\* prepare_test_data, lines 544-563, with
\* img = scale_aligned_short(img, self.short_size) at line 550.
test_scale ==
    /\ sc_pc = "loaded"
    /\ LET out == scale_aligned_short(sc_h, sc_w, sc_short)
       IN  /\ sc_out_h' = out[1]
           /\ sc_out_w' = out[2]
           /\ sc_data' = TestRecord(sc_h, sc_w, out)
    /\ sc_scale' = <<sc_short, Min(sc_h, sc_w)>>
    /\ sc_pc' = "scaled_short"
    /\ UNCHANGED <<sessionVars, sc_h, sc_w, sc_short, shrinkVars, cropVars, tr_pc, wordVars, trainVars>>

ScaleNext == random_scale \/ test_scale

SpecScale == ScaleInit /\ [][ScaleNext]_vars

\* C4: both output dimensions of scale_aligned and scale_aligned_short are
\* multiples of 32, namely the smallest multiple of 32 that is not less than
\* the rounded scaled dimension int(dim*scale+0.5).
SmallestMultiple(out, x) ==
    /\ out % Stride = 0
    /\ out >= x
    /\ out - Stride < x

C4_AlignedToStride ==
    sc_pc \in {"scaled", "scaled_short"} =>
        /\ SmallestMultiple(sc_out_h, ScaledDim(sc_h, sc_scale[1], sc_scale[2]))
        /\ SmallestMultiple(sc_out_w, ScaledDim(sc_w, sc_scale[1], sc_scale[2]))

\* C4 witness: one dimension is rounded up to the next multiple, the other is
\* already an exact non-zero multiple and is left alone.
C4_Witness ==
    /\ sc_pc = "scaled"
    /\ ScaledDim(sc_h, sc_scale[1], sc_scale[2]) = Stride
    /\ sc_out_h = Stride
    /\ ScaledDim(sc_w, sc_scale[1], sc_scale[2]) % Stride # 0
    /\ sc_out_w = 2 * Stride

\* C14 as stated: whatever the loaded dimensions and short_size, the image
\* prepare_test_data returns has its shorter side equal to short_size and
\* both sides multiples of 32, and the record holds only the image and the
\* metadata, org_img_size the loaded (height, width) and img_size the
\* rescaled one.
C14_ShortSideIsShortSize ==
    sc_pc = "scaled_short" =>
        /\ Min(sc_data.imgs.h, sc_data.imgs.w) = sc_short
        /\ sc_data.imgs.h % Stride = 0
        /\ sc_data.imgs.w % Stride = 0
        /\ DOMAIN sc_data = {"imgs", "img_metas"}
        /\ sc_data.img_metas.org_img_size = <<sc_h, sc_w>>
        /\ sc_data.img_metas.img_size = <<sc_data.imgs.h, sc_data.imgs.w>>

\* C14 amended: the shorter side of the returned image is the smallest
\* multiple of 32 not below short_size, which is short_size exactly when
\* short_size is a multiple of 32; the longer side is a multiple of 32 too;
\* the image went through the rescaling and the normalisation only; the
\* record holds only the image and the metadata, org_img_size the loaded
\* (height, width) and img_size the rescaled one.
C14_ShortSideAlignedUp ==
    sc_pc = "scaled_short" =>
        /\ SmallestMultiple(Min(sc_data.imgs.h, sc_data.imgs.w), sc_short)
        /\ Min(sc_data.imgs.h, sc_data.imgs.w) = sc_short <=> sc_short % Stride = 0
        /\ sc_data.imgs.h % Stride = 0
        /\ sc_data.imgs.w % Stride = 0
        /\ (sc_h <= sc_w) => (sc_data.imgs.h <= sc_data.imgs.w)
        /\ (sc_w <= sc_h) => (sc_data.imgs.w <= sc_data.imgs.h)
        /\ sc_data.imgs.passes =
              <<"scale_aligned_short", "convert", "ToTensor", "Normalize">>
        /\ DOMAIN sc_data = {"imgs", "img_metas"}
        /\ sc_data.img_metas.org_img_size = <<sc_h, sc_w>>
        /\ sc_data.img_metas.img_size = <<sc_data.imgs.h, sc_data.imgs.w>>

\* C14 witness: a tall image and a short_size just above a multiple of 32:
\* the shorter side comes out as the next multiple, above short_size, and
\* the longer side is longer still.
C14_Witness ==
    /\ sc_pc = "scaled_short"
    /\ sc_w < sc_h
    /\ sc_short = Stride + 1
    /\ sc_data.imgs.w = 2 * Stride
    /\ sc_data.imgs.h > sc_data.imgs.w
    /\ sc_data.img_metas.org_img_size = <<sc_h, sc_w>>

(***************************************************************************)
(* shrink                                                                  *)
(***************************************************************************)

\* Longest polygon list of SpecShrink.
MaxShrinkPolys == 3

\* The filled rectangle of rows r0..r1 and columns c0..c1, as a pixel set.
Rect(r0, r1, c0, c1) == (r0..r1) \X (c0..c1)

\* The pixels of a region whose four neighbours are in the region too:
\* stands for the region filled by the ring pco.Execute(-offset) returns.
Erode(px) ==
    {p \in px : /\ <<p[1] - 1, p[2]>> \in px
                /\ <<p[1] + 1, p[2]>> \in px
                /\ <<p[1], p[2] - 1>> \in px
                /\ <<p[1], p[2] + 1>> \in px}

\* What offsetting one polygon can do (lines 256-271): AddPath raises,
\* Execute raises, Execute returns no ring, the first ring has at most two
\* vertices, or the first ring is a polygon.
OffsetOutcomes == {"addpath_raises", "execute_raises", "empty", "ring2", "ok"}

\* A polygon: the pixels drawContours fills for it (px), what offsetting it
\* does (off) and the pixels its offset ring fills (kpx).
Poly(px, off) == [px |-> px, off |-> off, kpx |-> Erode(px)]

\* An entry of shrinked_bboxes: the ring's pixels, and whether it is the
\* offset ring (TRUE) or the input polygon put back (FALSE).
Shrunk(bbox) == [px |-> bbox.kpx, shrunk |-> TRUE]
Unshrunk(bbox) == [px |-> bbox.px, shrunk |-> FALSE]

\* One iteration of the loop of shrink (lines 251-275) on bbox, with `bound`
\* telling whether shrinked_bbox was assigned by an earlier iteration.
\* Result: the entry appended (when none escaped), whether shrinked_bbox is
\* bound afterwards, and whether an exception escaped.  The handler of line
\* 272 first evaluates shrinked_bbox (line 273): unbound, that raises
\* UnboundLocalError out of the handler.
ShrinkOne(bbox, bound) ==
    IF bbox.off \in {"addpath_raises", "execute_raises"}
    THEN IF bound
         THEN [entry |-> Unshrunk(bbox), bound |-> TRUE, escaped |-> FALSE]
         ELSE [entry |-> Unshrunk(bbox), bound |-> FALSE, escaped |-> TRUE]
    ELSE IF bbox.off \in {"empty", "ring2"}
    THEN [entry |-> Unshrunk(bbox), bound |-> TRUE, escaped |-> FALSE]
    ELSE [entry |-> Shrunk(bbox), bound |-> TRUE, escaped |-> FALSE]

\* shrink(bboxes, rate) as a whole: <<shrinked_bboxes, escaped>>.
RECURSIVE ShrinkFrom(_, _, _, _)
ShrinkFrom(bbs, k, out, bound) ==
    IF k > Len(bbs) THEN [out |-> out, escaped |-> FALSE]
    ELSE LET r == ShrinkOne(bbs[k], bound)
         IN  IF r.escaped THEN [out |-> out, escaped |-> TRUE]
             ELSE ShrinkFrom(bbs, k + 1, Append(out, r.entry), r.bound)

shrink(bbs) == ShrinkFrom(bbs, 1, <<>>, FALSE)

ShrinkShapes == {Rect(0, 2, 0, 2), Rect(0, 0, 0, 1)}

ShrinkInputs == {Poly(px, off) : px \in ShrinkShapes, off \in OffsetOutcomes}

SeqsUpTo(S, n) == UNION {[1..k -> S] : k \in 0..n}

ShrinkInit ==
    /\ sh_pc = "loop"
    /\ sh_bboxes \in SeqsUpTo(ShrinkInputs, MaxShrinkPolys)
    /\ sh_idx = 1
    /\ shrinked_bboxes = <<>>
    /\ sh_bound = FALSE
    /\ ScaleIdle
    /\ CropIdle
    /\ TrainIdle
    /\ SessionIdle

\* One pass of "for bbox in bboxes" (lines 251-275).
shrink_step ==
    /\ sh_pc = "loop"
    /\ sh_idx <= Len(sh_bboxes)
    /\ LET r == ShrinkOne(sh_bboxes[sh_idx], sh_bound)
       IN  /\ sh_bound' = r.bound
           /\ IF r.escaped
              THEN /\ sh_pc' = "raised"
                   /\ UNCHANGED <<sh_idx, shrinked_bboxes>>
              ELSE /\ shrinked_bboxes' = Append(shrinked_bboxes, r.entry)
                   /\ sh_idx' = sh_idx + 1
                   /\ sh_pc' = "loop"
    /\ UNCHANGED <<sessionVars, sh_bboxes, scaleVars, cropVars, tr_pc, wordVars, trainVars>>

\* line 277: return shrinked_bboxes.
shrink_return ==
    /\ sh_pc = "loop"
    /\ sh_idx > Len(sh_bboxes)
    /\ sh_pc' = "returned"
    /\ UNCHANGED <<sessionVars, sh_bboxes, sh_idx, shrinked_bboxes, sh_bound, scaleVars, cropVars, tr_pc, wordVars, trainVars>>

ShrinkNext == shrink_step \/ shrink_return

SpecShrink == ShrinkInit /\ [][ShrinkNext]_vars

\* C5: shrink never lets an exception escape and returns one polygon per
\* input polygon, in input order: the offset ring where offsetting gave a
\* ring of more than two vertices, the unshrunk input polygon wherever
\* offsetting raised (the first polygon included), gave nothing or gave a
\* ring of at most two vertices.
C5_ShrinkNeverRaises ==
    /\ sh_pc # "raised"
    /\ sh_pc = "returned" =>
          /\ Len(shrinked_bboxes) = Len(sh_bboxes)
          /\ \A k \in 1..Len(sh_bboxes) :
                shrinked_bboxes[k] =
                    IF sh_bboxes[k].off = "ok" THEN Shrunk(sh_bboxes[k])
                    ELSE Unshrunk(sh_bboxes[k])

\* What the code does keep (checked for reference): an exception escapes
\* only from a polygon whose offsetting raised before any earlier polygon's
\* Execute returned, and a list that is returned is as C5 says.
C5_EscapeOnlyUnbound ==
    /\ sh_pc = "raised" =>
          /\ sh_bboxes[sh_idx].off \in {"addpath_raises", "execute_raises"}
          /\ \A k \in 1..(sh_idx - 1) :
                sh_bboxes[k].off \in {"addpath_raises", "execute_raises"}
    /\ sh_pc = "returned" =>
          /\ Len(shrinked_bboxes) = Len(sh_bboxes)
          /\ shrinked_bboxes = shrink(sh_bboxes).out

(***************************************************************************)
(* Rasters and random_crop_padding                                         *)
(***************************************************************************)

\* Largest raster height/width of SpecCrop.
MaxCropDim == 3
\* Most foreground pixels of the instance layer of SpecCrop.
MaxFg == 2

\* A raster (numpy array of shape (h, w)): rows 0..h-1, columns 0..w-1.
Pixels(h, w) == (0..(h - 1)) \X (0..(w - 1))
Const(h, w, v) == [h |-> h, w |-> w, px |-> [p \in Pixels(h, w) |-> v]]

\* The pixels of R holding v / holding something above 0.
Where(R, v) == {p \in DOMAIN R.px : R.px[p] = v}
Foreground(R) == {p \in DOMAIN R.px : R.px[p] > 0}

SetMin(S) == CHOOSE x \in S : \A y \in S : x <= y
SetMax(S) == CHOOSE x \in S : \A y \in S : x >= y
Rows(S) == {p[1] : p \in S}
Cols(S) == {p[2] : p \in S}

\* ClampTarget without the clamp: the crop size may exceed the source.
ClampTarget_None(t, d) == t

\* lines 174-175: "t_h = t_h if t_h < h else h".
ClampTarget(t, d) == IF t < d THEN t ELSE d

\* lines 179-187, one axis: lo and hi are the smallest and largest
\* foreground coordinate on the axis, t the crop size and d the source size.
\* tl = lo - t and br = hi - t are clipped at 0, br also at d - t, and the
\* origin is randint(tl, br) when tl < br, else 0.
AwareAxis(lo, hi, t, d) ==
    LET tl == Max(lo - t, 0)
        br == Min(Max(hi - t, 0), d - t)
    IN  IF tl < br THEN tl..br ELSE {0}

\* lines 189-190, one axis: randint(0, d - t) when d - t > 0, else 0.
UniformAxis(t, d) == IF d - t > 0 THEN 0..(d - t) ELSE {0}

\* The origins <<i, j>> the text-region branch (lines 178-187) can select
\* from the layer imgs[1].
AwareOrigins(R, t_h, t_w) ==
    LET fg == Foreground(R)
    IN  AwareAxis(SetMin(Rows(fg)), SetMax(Rows(fg)), t_h, R.h)
            \X AwareAxis(SetMin(Cols(fg)), SetMax(Cols(fg)), t_w, R.w)

\* The origins the other branch (lines 189-190) can select.
UniformOrigins(R, t_h, t_w) == UniformAxis(t_h, R.h) \X UniformAxis(t_w, R.w)

\* The length of the slice a[i : i + t] of an axis of length d.
SliceLen(i, t, d) == Max(Min(i + t, d) - Min(i, d), 0)

\* lines 206-213: imgs[idx][i:i+t_h, j:j+t_w], then copyMakeBorder with
\* p_h - t_h rows of 0 below and p_w - t_w columns of 0 on the right.
CropPad(R, i, j, t_h, t_w, p_h, p_w) ==
    LET ch == SliceLen(i, t_h, R.h)
        cw == SliceLen(j, t_w, R.w)
        oh == ch + (p_h - t_h)
        ow == cw + (p_w - t_w)
    IN  [h |-> oh, w |-> ow,
         px |-> [p \in Pixels(oh, ow) |->
                   IF p[1] < ch /\ p[2] < cw
                   THEN R.px[<<i + p[1], j + p[2]>>]
                   ELSE 0]]

\* lines 192-215 for the whole stack, with target_size = <<p_w, p_h>>.
CropStack(imgs, target, ij) ==
    LET h == imgs[1].h
        w == imgs[1].w
        t_h == ClampTarget(target[2], h)
        t_w == ClampTarget(target[1], w)
    IN  [idx \in 1..Len(imgs) |->
           CropPad(imgs[idx], ij[1], ij[2], t_h, t_w, target[2], target[1])]

\* The instance layers of SpecCrop: at most MaxFg pixels of instance 1.
FgSets(h, w) == {S \in SUBSET Pixels(h, w) : Cardinality(S) <= MaxFg}
Mask(h, w, S) ==
    [h |-> h, w |-> w, px |-> [p \in Pixels(h, w) |-> IF p \in S THEN 1 ELSE 0]]

\* The value that stands for every image pixel.
ImgValue == 9

CropTargets == {2, 3} \X {2, 3}

CropInit ==
    /\ cr_pc = "called"
    /\ \E h \in 1..MaxCropDim, w \in 1..MaxCropDim :
         \E S \in FgSets(h, w) :
            cr_imgs = <<Const(h, w, ImgValue), Mask(h, w, S)>>
    /\ cr_target \in CropTargets
    /\ cr_branch = "none"
    /\ cr_ij = <<0, 0>>
    /\ cr_out = <<>>
    /\ ScaleIdle
    /\ ShrinkIdle
    /\ TrainIdle
    /\ SessionIdle

\* lines 171-172: the stack already has the target size and is returned.
crop_same_size ==
    /\ cr_pc = "called"
    /\ cr_imgs[1].w = cr_target[1] /\ cr_imgs[1].h = cr_target[2]
    /\ cr_out' = cr_imgs
    /\ cr_branch' = "same"
    /\ cr_pc' = "returned"
    /\ UNCHANGED <<sessionVars, cr_imgs, cr_target, cr_ij, scaleVars, shrinkVars, tr_pc, wordVars, trainVars>>

\* lines 177-187 and 192-215: random.random() > 3/8 and imgs[1] has a
\* pixel above 0.
crop_text_region ==
    /\ cr_pc = "called"
    /\ ~(cr_imgs[1].w = cr_target[1] /\ cr_imgs[1].h = cr_target[2])
    /\ Foreground(cr_imgs[2]) # {}
    /\ \E ij \in AwareOrigins(cr_imgs[2],
                               ClampTarget(cr_target[2], cr_imgs[1].h),
                               ClampTarget(cr_target[1], cr_imgs[1].w)) :
          /\ cr_ij' = ij
          /\ cr_out' = CropStack(cr_imgs, cr_target, ij)
    /\ cr_branch' = "text"
    /\ cr_pc' = "returned"
    /\ UNCHANGED <<sessionVars, cr_imgs, cr_target, scaleVars, shrinkVars, tr_pc, wordVars, trainVars>>

\* lines 188-190 and 192-215: the draw is at most 3/8, or imgs[1] is all 0.
crop_uniform ==
    /\ cr_pc = "called"
    /\ ~(cr_imgs[1].w = cr_target[1] /\ cr_imgs[1].h = cr_target[2])
    /\ \E ij \in UniformOrigins(cr_imgs[2],
                                 ClampTarget(cr_target[2], cr_imgs[1].h),
                                 ClampTarget(cr_target[1], cr_imgs[1].w)) :
          /\ cr_ij' = ij
          /\ cr_out' = CropStack(cr_imgs, cr_target, ij)
    /\ cr_branch' = "uniform"
    /\ cr_pc' = "returned"
    /\ UNCHANGED <<sessionVars, cr_imgs, cr_target, scaleVars, shrinkVars, tr_pc, wordVars, trainVars>>

CropNext == crop_same_size \/ crop_text_region \/ crop_uniform

SpecCrop == CropInit /\ [][CropNext]_vars

\* The crop window of a returned stack: rows i..i+t_h-1, columns j..j+t_w-1.
CropWindow ==
    LET t_h == Min(cr_target[2], cr_imgs[1].h)
        t_w == Min(cr_target[1], cr_imgs[1].w)
    IN  (cr_ij[1]..(cr_ij[1] + t_h - 1)) \X (cr_ij[2]..(cr_ij[2] + t_w - 1))

\* C3: random_crop_padding returns every layer with spatial size exactly
\* target_size, whatever the source size and the branch: the crop window
\* lies inside the source, each layer holds the window's pixels at its top
\* left, and rows and columns of 0 below and on the right make up exactly
\* what the source lacks.
C3_CropReturnsTargetSize ==
    cr_pc = "returned" =>
        /\ \A idx \in 1..Len(cr_out) :
              /\ cr_out[idx].h = cr_target[2]
              /\ cr_out[idx].w = cr_target[1]
        /\ cr_branch # "same" =>
              /\ CropWindow \subseteq Pixels(cr_imgs[1].h, cr_imgs[1].w)
              /\ \A idx \in 1..Len(cr_out) :
                    \A p \in Pixels(cr_target[2], cr_target[1]) :
                       cr_out[idx].px[p] =
                          IF <<cr_ij[1] + p[1], cr_ij[2] + p[2]>> \in CropWindow
                          THEN cr_imgs[idx].px[<<cr_ij[1] + p[1], cr_ij[2] + p[2]>>]
                          ELSE 0

\* C3 witness: a source lower but wider than the target, cropped at a
\* column origin other than 0 and padded below.
C3_Witness ==
    /\ cr_pc = "returned"
    /\ cr_imgs[1].h < cr_target[2]
    /\ cr_imgs[1].w > cr_target[1]
    /\ cr_ij[2] > 0
    /\ cr_out[1].h = cr_target[2]
    /\ cr_out[1].px[<<cr_target[2] - 1, 0>>] = 0
    /\ cr_out[1].px[<<0, 0>>] = ImgValue

\* C10: when random_crop_padding takes the text-region branch, the crop
\* window contains at least one foreground pixel of imgs[1], for every
\* origin the branch can select, the fallback origin 0 included.
C10_TextCropHitsForeground ==
    (cr_pc = "returned" /\ cr_branch = "text") =>
        CropWindow \cap Foreground(cr_imgs[2]) # {}

(***************************************************************************)
(* The word label table                                                    *)
(***************************************************************************)

\* self.max_word_num (200 in the source), scaled down.
max_word_num == 2
\* self.max_word_len (32 in the source), scaled down.
max_word_len == 3
\* Longest word list of SpecWords.
MaxWordList == 2

\* get_vocabulary('LOWERCASE'): string.digits + string.ascii_lowercase, then
\* EOS, PADDING and UNKNOWN appended.
voc ==
    <<"0", "1", "2", "3", "4", "5", "6", "7", "8", "9",
      "a", "b", "c", "d", "e", "f", "g", "h", "i", "j", "k", "l", "m",
      "n", "o", "p", "q", "r", "s", "t", "u", "v", "w", "x", "y", "z",
      "EOS", "PAD", "UNK">>

\* char2id = dict(zip(voc, range(len(voc)))).
InVoc(c) == \E k \in 1..Len(voc) : voc[k] = c
char2id(c) == (CHOOSE k \in 1..Len(voc) : voc[k] = c) - 1

\* str.lower() on the characters the words are drawn from.
LowerChar(c) == IF c = "B" THEN "b" ELSE c
Lower(word) == [k \in 1..Len(word) |-> LowerChar(word[k])]

\* The sentinels get_ann writes: '###' for the transcription '#', '???' for
\* an absent transcription (lines 52-59).
IgnoreWord == <<"#", "#", "#">>
UnknownWord == <<"?", "?", "?">>

\* lines 414-417: the id of a character, UNK when it is not a key.
CharId(c) == IF InVoc(c) THEN char2id(c) ELSE char2id("UNK")

\* EosPos with the truncation test off by one.
EosPos_Late(n) == IF n > max_word_len THEN max_word_len - 1 ELSE n

\* lines 418-421: where EOS goes for a word of n characters
\* ("if len(word) > self.max_word_len - 1: gt_word[-1] ... else gt_word[len(word)]").
EosPos(n) == IF n > max_word_len - 1 THEN max_word_len - 1 ELSE n

\* lines 407-421: gt_word for one word, indexed 0..max_word_len-1.
EncodeWord(word) ==
    LET w == Lower(word)
        filled == [j \in 0..(max_word_len - 1) |->
                     IF j < Len(w) THEN CharId(w[j + 1]) ELSE char2id("PAD")]
    IN  [filled EXCEPT ![EosPos(Len(w))] = char2id("EOS")]

PadRow == [j \in 0..(max_word_len - 1) |-> char2id("PAD")]

\* ClipList that leaves the list as long as it is.
ClipList_None(list) == list

\* lines 396-398: the word list clipped to max_word_num.
ClipList(list) ==
    IF Len(list) > max_word_num THEN SubSeq(list, 1, max_word_num) ELSE list

Skipped(word) == word = IgnoreWord \/ word = UnknownWord

\* lines 400-423: gt_words, indexed 0..max_word_num.
EncodeTable(ws) ==
    [k \in 0..max_word_num |->
       IF k >= 1 /\ k <= Len(ws) /\ ~Skipped(ws[k]) THEN EncodeWord(ws[k])
       ELSE PadRow]

\* lines 403-423: word_mask, indexed 0..max_word_num.
EncodeMask(ws) ==
    [k \in 0..max_word_num |->
       IF k >= 1 /\ k <= Len(ws) /\ ~Skipped(ws[k]) THEN 1 ELSE 0]

\* The characters and words of SpecWords: "B" is lowered into the
\* vocabulary, "#" is outside it, and '###' is among the words.
WordChars == {"B", "#"}
WordSet == SeqsUpTo(WordChars, max_word_len + 1) \cup {UnknownWord}

WordsInit ==
    /\ tr_pc = "loaded"
    /\ words \in SeqsUpTo(WordSet, MaxWordList)
    /\ gt_words = <<>>
    /\ word_mask = <<>>
    /\ RasterIdle
    /\ ScaleIdle
    /\ ShrinkIdle
    /\ CropIdle
    /\ SessionIdle

\* lines 396-423 of prepare_train_data.
encode_words ==
    /\ tr_pc = "loaded"
    /\ words' = ClipList(words)
    /\ gt_words' = EncodeTable(ClipList(words))
    /\ word_mask' = EncodeMask(ClipList(words))
    /\ bboxes' = ClipList(bboxes)
    /\ tr_pc' = "encoded"
    /\ UNCHANGED <<sessionVars, scaleVars, shrinkVars, cropVars, cfgVars, rasterVars,
                   gt_instance_before_crop, gt_bboxes, data>>

WordsNext == encode_words

SpecWords == WordsInit /\ [][WordsNext]_vars

\* C9: after the encoding loop, for the i-th retained word (0-based) that is
\* no sentinel, slot i+1 holds the ids of its lowercased characters (UNK for
\* a character outside the vocabulary), cut to the first max_word_len-1,
\* then one EOS, then PAD to the end, and word-mask slot i+1 is 1; slot 0
\* and the slots of sentinel words are all PAD with word mask 0.
C9_WordTableEncoding ==
    tr_pc = "encoded" =>
        /\ \A j \in 0..(max_word_len - 1) : gt_words[0][j] = char2id("PAD")
        /\ word_mask[0] = 0
        /\ \A i \in 0..(Len(words) - 1) :
              LET word == words[i + 1]
                  n == Min(Len(word), max_word_len - 1)
              IN  IF word = IgnoreWord \/ word = UnknownWord
                  THEN /\ \A j \in 0..(max_word_len - 1) :
                            gt_words[i + 1][j] = char2id("PAD")
                       /\ word_mask[i + 1] = 0
                  ELSE /\ \A j \in 0..(n - 1) :
                            gt_words[i + 1][j] =
                               IF InVoc(LowerChar(word[j + 1]))
                               THEN char2id(LowerChar(word[j + 1]))
                               ELSE char2id("UNK")
                       /\ gt_words[i + 1][n] = char2id("EOS")
                       /\ \A j \in (n + 1)..(max_word_len - 1) :
                            gt_words[i + 1][j] = char2id("PAD")
                       /\ word_mask[i + 1] = 1

\* C9 witness: a sentinel word followed by a word of exactly max_word_len
\* characters, which is cut and closed by EOS in the last position.
C9_Witness ==
    /\ tr_pc = "encoded"
    /\ Len(words) = 2
    /\ words[1] = IgnoreWord
    /\ Len(words[2]) = max_word_len
    /\ words[2][1] = "B"
    /\ words[2][2] = "#"
    /\ gt_words[2][0] = 11
    /\ gt_words[2][1] = 38
    /\ gt_words[2][max_word_len - 1] = 36
    /\ word_mask = (0 :> 0 @@ 1 :> 0 @@ 2 :> 1)

(***************************************************************************)
(* prepare_train_data                                                      *)
(***************************************************************************)

\* Height and width of the image of SpecTrain, as random_scale left it.
TrainH == 3
TrainW == 6
\* Longest annotation list of SpecTrain.
MaxPolys == 2

\* cv2.drawContours(R, [bbox], -1, v, -1): the polygon's pixels are set to v.
DrawContours(R, px, v) ==
    [R EXCEPT !.px = [p \in DOMAIN R.px |-> IF p \in px THEN v ELSE R.px[p]]]

\* lines 440-441: the polygons drawn in list order, polygon k with value k.
RECURSIVE DrawInstances(_, _, _)
DrawInstances(R, bbs, k) ==
    IF k > Len(bbs) THEN R
    ELSE DrawInstances(DrawContours(R, bbs[k].px, k), bbs, k + 1)

\* IsIgnored taking the '???' sentinel for ignored too.
IsIgnored_OrUnknown(word) == word = IgnoreWord \/ word = UnknownWord

\* line 452: words[i] == '###'.
IsIgnored(word) == word = IgnoreWord

\* lines 452-453: a polygon whose word is '###' is drawn with 0.
RECURSIVE DrawIgnored(_, _, _, _)
DrawIgnored(R, bbs, ws, k) ==
    IF k > Len(bbs) THEN R
    ELSE DrawIgnored(IF IsIgnored(ws[k]) THEN DrawContours(R, bbs[k].px, 0)
                     ELSE R, bbs, ws, k + 1)

\* cv2.distanceTransform(tmp, cv2.DIST_L2, 3) in thousandths: the 3x3 mask
\* costs 0.955 for a straight and 1.3693 for a diagonal step.
ChamferA == 955
ChamferB == 1369
Abs(x) == IF x < 0 THEN -x ELSE x
Chamfer(p, q) ==
    LET dx == Abs(p[1] - q[1])
        dy == Abs(p[2] - q[2])
    IN  ChamferA * (Max(dx, dy) - Min(dx, dy)) + ChamferB * Min(dx, dy)

\* The value distanceTransform gives where the mask has no zero pixel.
FarDist == 1000000

\* lines 444-446: the distance of each pixel of the filled polygon to the
\* nearest pixel outside it, 0 outside.
DistField(px, h, w) ==
    LET zero == Pixels(h, w) \ px
    IN  [p \in Pixels(h, w) |->
           IF p \notin px THEN 0
           ELSE IF zero = {} THEN FarDist
           ELSE SetMin({Chamfer(p, q) : q \in zero})]

\* MergeDist keeping the larger of the two values.
MergeDist_Max(R, field) ==
    [R EXCEPT !.px = [p \in DOMAIN R.px |-> Max(field[p], R.px[p])]]

\* line 450 / 471: gt_distmap[tempdist_img>0] = tempdist_img[tempdist_img>0].
MergeDist(R, field) ==
    [R EXCEPT !.px = [p \in DOMAIN R.px |->
                        IF field[p] > 0 THEN field[p] ELSE R.px[p]]]

\* lines 440-450 / 461-471: the fields of the regions merged in list order.
RECURSIVE DrawDist(_, _, _)
DrawDist(R, regions, k) ==
    IF k > Len(regions) THEN R
    ELSE DrawDist(MergeDist(R, DistField(regions[k], R.h, R.w)), regions, k + 1)

\* lines 461-462: the shrunk polygons drawn with value 1.
RECURSIVE DrawKernel(_, _, _)
DrawKernel(R, regions, k) ==
    IF k > Len(regions) THEN R
    ELSE DrawKernel(DrawContours(R, regions[k], 1), regions, k + 1)

PxOf(bbs) == [k \in 1..Len(bbs) |-> bbs[k].px]

\* lines 431-454: the raw distance layer is appended inside
\* "if len(bboxes) > 0".
RawDistLayers(bbs, h, w) ==
    IF Len(bbs) > 0 THEN <<DrawDist(Const(h, w, 0), PxOf(bbs), 1)>> ELSE <<>>

\* The polygons of SpecTrain on the TrainH x TrainW image: a block with a
\* spur on the left (10 pixels), the leftmost column (3 pixels), a block
\* with a spur on either side (11 pixels), and the two leftmost columns.
ShapeA == Rect(0, 2, 1, 3) \cup {<<1, 0>>}
ShapeB == Rect(0, 2, 0, 0)
ShapeC == Rect(0, 2, 1, 3) \cup {<<1, 0>>, <<1, 4>>}
ShapeD == Rect(0, 2, 0, 1)
TrainShapes == {ShapeA, ShapeB, ShapeC, ShapeD}
TrainWords == {IgnoreWord, UnknownWord, <<"B">>}

\* A well-formed polygon: offsetting it gives a ring, or nothing when the
\* polygon is too thin to be shrunk.
TrainPoly(px) == Poly(px, IF Erode(px) = {} THEN "empty" ELSE "ok")

\* line 392: the loaded image.  Every pixel carries the code of its own
\* position, so that a pixel of an augmented image names the pixel of the
\* loaded image it was taken from; 0 is left for the border fill.
PixelCode(p, w) == 1 + p[1] * w + p[2]
LoadedImage(h, w) ==
    [h |-> h, w |-> w, px |-> [p \in Pixels(h, w) |-> PixelCode(p, w)]]

\* The polygons of the lists longer than max_word_num.
OverlongShapes == {ShapeA, ShapeD}

\* lines 393-394: the image and the annotation are loaded.  The lists hold
\* up to MaxPolys polygons with any of the words, or one polygon more than
\* max_word_num, each with a plain word.
TrainInit ==
    /\ tr_pc = "loaded"
    /\ \/ \E n \in 0..MaxPolys :
            /\ bboxes \in [1..n -> {TrainPoly(px) : px \in TrainShapes}]
            /\ words \in [1..n -> TrainWords]
       \/ /\ bboxes \in [1..(max_word_num + 1) ->
                          {TrainPoly(px) : px \in OverlongShapes}]
          /\ words = [k \in 1..(max_word_num + 1) |-> <<"B">>]
    /\ annotation = [bboxes |-> bboxes, words |-> words]
    /\ gt_words = <<>>
    /\ word_mask = <<>>
    /\ is_transform \in BOOLEAN
    /\ with_rec \in BOOLEAN
    /\ img_size = <<TrainW - 1, TrainH>>
    /\ img = LoadedImage(TrainH, TrainW)
    /\ gt_instance = NoRaster
    /\ training_mask = NoRaster
    /\ gt_kernels = <<>>
    /\ gt_distmaps = <<>>
    /\ gt_instance_before_crop = NoRaster
    /\ gt_bboxes = <<>>
    /\ data = <<>>
    /\ ScaleIdle
    /\ ShrinkIdle
    /\ CropIdle
    /\ SessionIdle

\* lines 428-475: the instance map, the training mask, the raw distance
\* layer, then for the one rate the kernel map and the kernel distance layer.
draw_rasters ==
    /\ tr_pc = "encoded"
    /\ LET h == img.h
           w == img.w
           s == shrink(bboxes)
       IN  IF s.escaped
           THEN /\ tr_pc' = "raised"
                /\ UNCHANGED <<gt_instance, training_mask, gt_kernels, gt_distmaps>>
           ELSE /\ gt_instance' = DrawInstances(Const(h, w, 0), bboxes, 1)
                /\ training_mask' = DrawIgnored(Const(h, w, 1), bboxes, words, 1)
                /\ gt_kernels' = <<DrawKernel(Const(h, w, 0), PxOf(s.out), 1)>>
                /\ gt_distmaps' = RawDistLayers(bboxes, h, w)
                                    \o <<DrawDist(Const(h, w, 0), PxOf(s.out), 1)>>
                /\ tr_pc' = "drawn"
    /\ UNCHANGED <<sessionVars, scaleVars, shrinkVars, cropVars, wordVars, cfgVars, img,
                   bboxes, gt_instance_before_crop, gt_bboxes, data>>

\* lines 478-480: imgs = [img, gt_instance, training_mask] + gt_kernels + gt_distmaps.
Stack == <<img, gt_instance, training_mask>> \o gt_kernels \o gt_distmaps

\* line 77: np.flip(imgs[i], axis=1).
FlipRaster(R) ==
    [R EXCEPT !.px = [p \in DOMAIN R.px |-> R.px[<<p[1], R.w - 1 - p[2]>>]]]

\* The angles random_rotate is run with: both ends of
\* random.random() * 2 * max_angle - max_angle, and 0.
Angles == {-10, 0, 10}
\* cos and sin of an angle in hundred-thousandths.
TrigScale == 100000
Cos(a) == IF a = 0 THEN 100000 ELSE 98481
Sin(a) == IF a = 0 THEN 0 ELSE IF a > 0 THEN 17365 ELSE -17365

\* lines 86-90: cv2.warpAffine with the matrix of getRotationMatrix2D about
\* (cols/2, rows/2), INTER_NEAREST and a constant border of 0: the pixel at
\* row p[1], column p[2] takes the source pixel nearest to its pre-image.
RotSource(p, rows, cols, a) ==
    LET x2 == 2 * p[2] - cols
        y2 == 2 * p[1] - rows
        sx == (Cos(a) * x2 - Sin(a) * y2 + TrigScale * cols + TrigScale)
                 \div (2 * TrigScale)
        sy == (Sin(a) * x2 + Cos(a) * y2 + TrigScale * rows + TrigScale)
                 \div (2 * TrigScale)
    IN  <<sy, sx>>

RotateRaster(R, a) ==
    [R EXCEPT !.px = [p \in DOMAIN R.px |->
                        LET q == RotSource(p, R.h, R.w, a)
                        IN  IF q \in DOMAIN R.px THEN R.px[q] ELSE 0]]

\* One transformation applied to every layer of a stack.
MapStack(imgs, F(_)) == [idx \in 1..Len(imgs) |-> F(imgs[idx])]

\* line 489: img, gt_instance, training_mask, gt_kernels, gt_distmaps taken
\* back from the stack, with index_ker = 3 + len(gt_kernels).
Unstack(imgs) ==
    LET index_ker == 3 + Len(gt_kernels)
    IN  /\ img' = imgs[1]
        /\ gt_instance' = imgs[2]
        /\ training_mask' = imgs[3]
        /\ gt_kernels' = SubSeq(imgs, 4, index_ker)
        /\ gt_distmaps' = SubSeq(imgs, index_ker + 1, Len(imgs))

\* random_horizontal_flip with a loop that stops after the image.
random_horizontal_flip_ImageOnly(imgs, do_flip) ==
    IF do_flip
    THEN [idx \in 1..Len(imgs) |->
            IF idx = 1 THEN FlipRaster(imgs[idx]) ELSE imgs[idx]]
    ELSE imgs

\* lines 74-78: random_horizontal_flip(imgs); do_flip is the one
\* random.random() < 0.5 drawn before the loop over the layers.
random_horizontal_flip(imgs, do_flip) ==
    IF do_flip THEN MapStack(imgs, FlipRaster) ELSE imgs

\* lines 482-483: random_horizontal_flip unless with_rec.
aug_flip ==
    /\ tr_pc = "drawn"
    /\ is_transform
    /\ \E do_flip \in (IF with_rec THEN {FALSE} ELSE BOOLEAN) :
          Unstack(random_horizontal_flip(Stack, do_flip))
    /\ tr_pc' = "flipped"
    /\ UNCHANGED <<sessionVars, scaleVars, shrinkVars, cropVars, wordVars, cfgVars,
                   bboxes, gt_instance_before_crop, gt_bboxes, data>>

\* line 484: random_rotate.
aug_rotate ==
    /\ tr_pc = "flipped"
    /\ \E a \in Angles :
          LET Rot(R) == RotateRaster(R, a)
          IN  Unstack(MapStack(Stack, Rot))
    /\ tr_pc' = "rotated"
    /\ UNCHANGED <<sessionVars, scaleVars, shrinkVars, cropVars, wordVars, cfgVars,
                   bboxes, gt_instance_before_crop, gt_bboxes, data>>

\* random_crop_padding(imgs, target_size): every stack it can return.
random_crop_padding(imgs, target) ==
    LET h == imgs[1].h
        w == imgs[1].w
        t_h == ClampTarget(target[2], h)
        t_w == ClampTarget(target[1], w)
        origins == UniformOrigins(imgs[2], t_h, t_w) \cup
                   (IF Foreground(imgs[2]) # {}
                    THEN AwareOrigins(imgs[2], t_h, t_w) ELSE {})
    IN  IF w = target[1] /\ h = target[2] THEN {imgs}
        ELSE {CropStack(imgs, target, ij) : ij \in origins}

Count(R, v) == Cardinality(Where(R, v))

\* RatioAbove with a comparison that admits equality.
RatioAbove_OrEqual(a, b) == 10 * a >= 9 * b

\* line 230: float(np.sum(ind)) / np.sum(ind_before_crop) > 0.9.
RatioAbove(a, b) == 10 * a > 9 * b

\* line 219: labels = np.unique(instance), the map after the crop.
Labels(instance, before) == {instance.px[p] : p \in DOMAIN instance.px}

\* lines 218-234: update_word_mask(instance, instance_before_crop, word_mask).
update_word_mask(instance, before, wm) ==
    [k \in DOMAIN wm |->
       IF k \in Labels(instance, before) /\ k # 0
       THEN IF Count(instance, k) = 0 THEN 0
            ELSE IF RatioAbove(Count(instance, k), Count(before, k)) THEN wm[k]
            ELSE 0
       ELSE wm[k]]

\* lines 485-491: the instance map is copied, the stack is cropped and
\* padded, and the word mask is updated from the two instance maps.
aug_crop ==
    /\ tr_pc = "rotated"
    /\ gt_instance_before_crop' = gt_instance
    /\ \E imgs \in random_crop_padding(Stack, img_size) :
          /\ Unstack(imgs)
          /\ word_mask' = update_word_mask(imgs[2], gt_instance, word_mask)
    /\ tr_pc' = "cropped"
    /\ UNCHANGED <<sessionVars, scaleVars, shrinkVars, cropVars, words, gt_words, cfgVars,
                   bboxes, gt_bboxes, data>>

\* BoxOf whose far corner is the last row and column themselves.
BoxOf_Inclusive(S) ==
    <<SetMin(Rows(S)), SetMin(Cols(S)), SetMax(Rows(S)), SetMax(Cols(S))>>

\* lines 504-507: (tl[0], tl[1], br[0], br[1]) with br = max + 1.
BoxOf(S) ==
    <<SetMin(Rows(S)), SetMin(Cols(S)), SetMax(Rows(S)) + 1, SetMax(Cols(S)) + 1>>

\* lines 498-507: gt_bboxes, indexed 0..max_word_num.
BoxTable(instance) ==
    LET max_instance == SetMax({instance.px[p] : p \in DOMAIN instance.px})
    IN  [k \in 0..max_word_num |->
           IF k >= 1 /\ k <= max_instance /\ Where(instance, k) # {}
           THEN BoxOf(Where(instance, k))
           ELSE <<0, 0, 0, 0>>]

\* line 494: gt_text[gt_text > 0] = 1.
TextMask(instance) ==
    [instance EXCEPT !.px = [p \in DOMAIN instance.px |->
                               IF instance.px[p] > 0 THEN 1 ELSE 0]]

\* lines 530-540: the record; gt_words and word_masks only with with_rec.
Record(boxes) ==
    LET base == [imgs |-> img,
                 gt_texts |-> TextMask(gt_instance),
                 gt_kernels |-> gt_kernels,
                 gt_distmap |-> gt_distmaps,
                 training_masks |-> training_mask,
                 gt_instances |-> gt_instance,
                 gt_bboxes |-> boxes]
    IN  IF with_rec
        THEN base @@ [gt_words |-> gt_words, word_masks |-> word_mask]
        ELSE base

\* lines 493-542: the boxes and the record, after the augmentation or, when
\* is_transform is off, right after the rasters are drawn.
assemble ==
    /\ \/ tr_pc = "cropped"
       \/ tr_pc = "drawn" /\ ~is_transform
    /\ gt_bboxes' = BoxTable(gt_instance)
    /\ data' = Record(BoxTable(gt_instance))
    /\ tr_pc' = "done"
    /\ UNCHANGED <<sessionVars, scaleVars, shrinkVars, cropVars, wordVars, cfgVars,
                   bboxes, rasterVars, gt_instance_before_crop>>

TrainNext == encode_words \/ draw_rasters \/ aug_flip \/ aug_rotate \/ aug_crop \/ assemble

SpecTrain == TrainInit /\ [][TrainNext]_vars

(***************************************************************************)
(* Claims on prepare_train_data                                            *)
(***************************************************************************)

Augmented == is_transform /\ tr_pc \in {"cropped", "done"}

After(k) == Cardinality({p \in DOMAIN gt_instance.px : gt_instance.px[p] = k})
Before(k) ==
    Cardinality({p \in DOMAIN gt_instance_before_crop.px :
                    gt_instance_before_crop.px[p] = k})

\* The word mask the encoding loop built for the sample's words.
MaskBuilt(k) == IF words[k] \in {IgnoreWord, UnknownWord} THEN 0 ELSE 1

\* C1 as stated: for every instance id that still has pixels after the
\* crop, the word-mask slot is made 0 if and only if its pixel count after
\* the crop is less than 90% of its count before the crop; at 90% or more,
\* exactly 90% included, the slot is unchanged.
C1_PrunedBelow90 ==
    Augmented =>
        \A k \in 1..Len(words) :
           After(k) > 0 =>
              word_mask[k] = IF 10 * After(k) < 9 * Before(k) THEN 0
                             ELSE MaskBuilt(k)

\* C1 amended: for every instance id that still has pixels after the crop,
\* the word-mask slot is made 0 if and only if its pixel count after the
\* crop is at most 90% of its count before the crop (exactly 90% is
\* invalidated); above 90% the slot is unchanged.
C1_PrunedAtMost90 ==
    Augmented =>
        \A k \in 1..Len(words) :
           After(k) > 0 =>
              word_mask[k] = IF 10 * After(k) <= 9 * Before(k) THEN 0
                             ELSE MaskBuilt(k)

\* C1 witness: a readable instance keeps exactly 90% of its pixels through
\* the crop and its slot is made 0.
C1_Witness ==
    /\ Augmented
    /\ \E k \in 1..Len(words) :
          /\ MaskBuilt(k) = 1
          /\ After(k) > 0
          /\ 10 * After(k) = 9 * Before(k)
          /\ word_mask[k] = 0

\* The other cases of C1 that the crops of SpecTrain produce: a readable
\* instance that loses pixels yet keeps more than 90% and stays valid, and
\* one that keeps less than 90% and is invalidated.
C1_KeptAbove90 ==
    /\ Augmented
    /\ \E k \in 1..Len(words) :
          /\ MaskBuilt(k) = 1
          /\ After(k) < Before(k)
          /\ 10 * After(k) > 9 * Before(k)
          /\ word_mask[k] = 1

C1_PrunedUnder90 ==
    /\ Augmented
    /\ \E k \in 1..Len(words) :
          /\ MaskBuilt(k) = 1
          /\ After(k) > 0
          /\ 10 * After(k) < 9 * Before(k)
          /\ word_mask[k] = 0

\* C2: an instance id with a pixel in the instance map before the crop and
\* none after it has word-mask slot 0 in the record prepare_train_data
\* returns.
C2_CroppedAwayIsInvalid ==
    (tr_pc = "done" /\ is_transform /\ with_rec) =>
        \A k \in 1..max_word_num :
           (Before(k) > 0 /\ After(k) = 0) => data.word_masks[k] = 0

\* C6: whatever the number of polygons, zero included, and with or without
\* augmentation, the record's distance-map array holds exactly two layers,
\* the raw-polygon layer first and the kernel layer second, and its
\* kernel-mask array exactly one layer.
C6_TwoDistanceLayers ==
    /\ tr_pc = "drawn" =>
          /\ Len(gt_distmaps) = 2
          /\ gt_distmaps[1] = DrawDist(Const(img.h, img.w, 0), PxOf(bboxes), 1)
          /\ gt_distmaps[2] =
                DrawDist(Const(img.h, img.w, 0), PxOf(shrink(bboxes).out), 1)
          /\ Len(gt_kernels) = 1
    /\ tr_pc = "done" =>
          /\ Len(data.gt_distmap) = 2
          /\ Len(data.gt_kernels) = 1

\* The bounding box of the pixels of the final instance map holding k.
FinalBox(k) ==
    LET S == {p \in DOMAIN gt_instance.px : gt_instance.px[p] = k}
    IN  <<SetMin({p[1] : p \in S}), SetMin({p[2] : p \in S}),
          SetMax({p[1] : p \in S}) + 1, SetMax({p[2] : p \in S}) + 1>>

\* Instance k failed the visibility check after the crop.
Pruned(k) == is_transform /\ After(k) > 0 /\ 10 * After(k) <= 9 * Before(k)

\* C7 as stated: box slot i is the bounding box (min row, min column,
\* max row + 1, max column + 1) of instance i when i has pixels in the final
\* instance map and was not pruned, and (0, 0, 0, 0) when i is absent from
\* the final map or was pruned by the visibility check; slot 0 is zero.
C7_BoxesZeroWhenPruned ==
    tr_pc = "done" =>
        /\ data.gt_bboxes[0] = <<0, 0, 0, 0>>
        /\ \A i \in 1..max_word_num :
              data.gt_bboxes[i] =
                 IF After(i) > 0 /\ ~Pruned(i) THEN FinalBox(i)
                 ELSE <<0, 0, 0, 0>>

\* C7 amended: box slot i is the bounding box (min row, min column,
\* max row + 1, max column + 1) of instance i whenever i has pixels in the
\* final instance map, pruned by the visibility check or not, and
\* (0, 0, 0, 0) exactly when i is absent from the final map; slot 0 is zero.
C7_BoxesFromFinalMap ==
    tr_pc = "done" =>
        /\ data.gt_bboxes[0] = <<0, 0, 0, 0>>
        /\ \A i \in 1..max_word_num :
              data.gt_bboxes[i] =
                 IF After(i) > 0 THEN FinalBox(i) ELSE <<0, 0, 0, 0>>

\* C7 witness: of two instances one is pruned yet keeps a box that is not
\* zero, the other is gone from the final map and has the zero box.
C7_Witness ==
    /\ tr_pc = "done"
    /\ Len(bboxes) = 2
    /\ \E i, j \in 1..2 :
          /\ Pruned(i)
          /\ word_mask[i] = 0
          /\ data.gt_bboxes[i] # <<0, 0, 0, 0>>
          /\ data.gt_bboxes[i][4] = 1 + SetMax({p[2] : p \in Where(gt_instance, i)})
          /\ Before(j) > 0
          /\ After(j) = 0
          /\ data.gt_bboxes[j] = <<0, 0, 0, 0>>

\* The pixels of the polygons whose word is one of the given sentinels.
Covered(sentinels) ==
    UNION {bboxes[k].px : k \in {n \in 1..Len(bboxes) : words[n] \in sentinels}}

\* An ignored polygon is drawn in the instance map: its pixels hold its id
\* wherever no later polygon of the list covers them.
DrawnInInstanceMap(k) ==
    \A p \in bboxes[k].px \cap DOMAIN gt_instance.px :
       (\A n \in (k + 1)..Len(bboxes) : p \notin bboxes[n].px)
           => gt_instance.px[p] = k

\* C8 as stated: before augmentation a training-mask pixel is 0 if and only
\* if it lies in a polygon marked ignored, that is one whose transcription
\* is unreadable ('###') or unknown ('???'), whatever the order and the
\* overlaps; every other pixel is 1; the ignored polygon is still drawn in
\* the instance map.
C8_MaskZeroInIgnoredOrUnknown ==
    tr_pc = "drawn" =>
        /\ \A p \in DOMAIN training_mask.px :
              training_mask.px[p] =
                 IF p \in Covered({IgnoreWord, UnknownWord}) THEN 0 ELSE 1
        /\ \A k \in 1..Len(bboxes) :
              words[k] \in {IgnoreWord, UnknownWord} => DrawnInInstanceMap(k)

\* C8 amended: before augmentation a training-mask pixel is 0 if and only
\* if it lies in a polygon whose word is the '###' sentinel, whatever the
\* order and the overlaps; every other pixel, those of '???' polygons
\* included, is 1; the '###' polygon is still drawn in the instance map.
C8_MaskZeroInIgnored ==
    tr_pc = "drawn" =>
        /\ \A p \in DOMAIN training_mask.px :
              training_mask.px[p] = IF p \in Covered({IgnoreWord}) THEN 0 ELSE 1
        /\ \A k \in 1..Len(bboxes) :
              words[k] = IgnoreWord => DrawnInInstanceMap(k)

\* C8 witness: a '###' polygon drawn first and overlapped by a '???'
\* polygon drawn after it: the shared pixel is 0 in the training mask and
\* holds the later id in the instance map, and a pixel of the '???' polygon
\* alone stays 1.
C8_Witness ==
    /\ tr_pc = "drawn"
    /\ Len(bboxes) = 2
    /\ words[1] = IgnoreWord
    /\ words[2] = UnknownWord
    /\ \E p \in bboxes[1].px \cap bboxes[2].px :
          training_mask.px[p] = 0 /\ gt_instance.px[p] = 2
    /\ \E p \in bboxes[2].px : training_mask.px[p] = 1

\* The distance fields of the regions, one per polygon, in list order.
Fields(regions, h, w) == [k \in 1..Len(regions) |-> DistField(regions[k], h, w)]

\* The field value at p of the last region whose field is above 0 there,
\* 0 when there is none.
LastNonzero(fields, p) ==
    LET S == {k \in 1..Len(fields) : fields[k][p] > 0}
    IN  IF S = {} THEN 0 ELSE fields[SetMax(S)][p]

\* The distance field of every region SpecTrain draws: the polygons and
\* what offsetting leaves of them.  (@@ <<>> makes TLC keep the fields as
\* tables of values instead of evaluating them again at every use.)
TrainRegions == TrainShapes \cup {Erode(px) : px \in TrainShapes}
FieldTable ==
    [px \in TrainRegions |-> DistField(px, TrainH, TrainW) @@ <<>>] @@ <<>>

\* lines 440-450 / 461-471: the layer the fields of the regions merge into,
\* the last nonzero field value at every pixel.
MergedLayer(regions) ==
    LET fields == [k \in 1..Len(regions) |-> FieldTable[regions[k]]]
    IN  [h |-> TrainH, w |-> TrainW,
         px |-> [p \in Pixels(TrainH, TrainW) |-> LastNonzero(fields, p)]]

\* The layers as lines 428-475 draw them from the loaded image and the
\* clipped lists, in the order of the stack of lines 478-480.
DrawnLayers ==
    LET h == TrainH
        w == TrainW
        s == shrink(bboxes)
    IN  <<LoadedImage(h, w),
          DrawInstances(Const(h, w, 0), bboxes, 1),
          DrawIgnored(Const(h, w, 1), bboxes, words, 1),
          DrawKernel(Const(h, w, 0), PxOf(s.out), 1)>>
        \o (IF Len(bboxes) > 0 THEN <<MergedLayer(PxOf(bboxes))>> ELSE <<>>)
        \o <<MergedLayer(PxOf(s.out))>>

\* The pixel of the loaded image a pixel code stands for.
SourceOf(code) == <<(code - 1) \div TrainW, (code - 1) % TrainW>>

\* The rasters of the returned record other than the image.
RecordRasters ==
    {data.gt_texts, data.training_masks, data.gt_instances}
      \cup {data.gt_kernels[k] : k \in 1..Len(data.gt_kernels)}
      \cup {data.gt_distmap[k] : k \in 1..Len(data.gt_distmap)}

\* C11: after each augmentation stage every layer of the stack (instance
\* map, training mask, kernel map, distance layers) has gone through the
\* transformation the image has gone through: a pixel holds what the drawn
\* layer held at the pixel of the loaded image now shown there, and the
\* border fill where the image is filled; so one flip decision, one angle,
\* one crop origin and one padding serve all layers, and every raster of the
\* returned record, which holds the layers as the last stage left them, has
\* the height and width of its image.
C11_LayersFollowImage ==
    /\ tr_pc \in {"drawn", "flipped", "rotated", "cropped", "done"} =>
          \A cur \in {Stack} : \A orig \in {DrawnLayers} :
              /\ Len(cur) = Len(orig)
              /\ \A k \in 1..Len(cur) :
                    /\ cur[k].h = img.h
                    /\ cur[k].w = img.w
                    /\ \A p \in DOMAIN img.px :
                          cur[k].px[p] = IF img.px[p] = 0 THEN 0
                                         ELSE orig[k].px[SourceOf(img.px[p])]
    /\ tr_pc = "done" =>
          /\ data.imgs = img
          /\ data.gt_instances = gt_instance
          /\ data.training_masks = training_mask
          /\ data.gt_kernels = gt_kernels
          /\ data.gt_distmap = gt_distmaps
          /\ \A R \in RecordRasters : R.h = data.imgs.h /\ R.w = data.imgs.w

\* C11 witness: a returned record whose image was mirrored (codes fall
\* along a row), moved (an instance pixel shows another pixel of the loaded
\* image), filled at the border and cropped to the narrower target.
C11_Witness ==
    /\ tr_pc = "done"
    /\ is_transform
    /\ data.imgs.w < TrainW
    /\ \E p \in DOMAIN img.px : img.px[p] = 0
    /\ \E p \in DOMAIN img.px :
          /\ img.px[p] \notin {0, PixelCode(p, TrainW)}
          /\ gt_instance.px[p] > 0
    /\ \E p, q \in DOMAIN img.px :
          /\ p[1] = q[1]
          /\ p[2] < q[2]
          /\ img.px[q] > 0
          /\ img.px[p] > img.px[q]

\* The raw fields and the kernel fields of the sample.
RawFields == Fields(PxOf(bboxes), TrainH, TrainW)
KernelFields == Fields(PxOf(shrink(bboxes).out), TrainH, TrainW)

\* C15: as drawn, each distance layer (the raw one, when there is a
\* polygon, and the kernel one) holds at every pixel the field value of the
\* last polygon in annotation order whose own field is nonzero there, and
\* 0 when no polygon's field is nonzero there: a later zero erases
\* nothing, and the value is the last one, not the largest and not the sum.
C15_LastNonzeroWins ==
    tr_pc = "drawn" =>
        LET n == Len(gt_distmaps)
        IN  /\ \A p \in Pixels(TrainH, TrainW) :
                  gt_distmaps[n].px[p] = LastNonzero(KernelFields, p)
            /\ Len(bboxes) > 0 =>
                  /\ n = 2
                  /\ \A p \in Pixels(TrainH, TrainW) :
                        gt_distmaps[1].px[p] = LastNonzero(RawFields, p)

\* C15 witness: two overlapping polygons; at one pixel the later field is
\* nonzero and smaller than the earlier one, and the raw layer holds the
\* later, smaller value; at another the later field is 0 and the layer
\* keeps the earlier value; the same happens in the kernel layer.
C15_Witness ==
    /\ tr_pc = "drawn"
    /\ Len(bboxes) = 2
    /\ \E p \in Pixels(TrainH, TrainW) :
          /\ RawFields[2][p] > 0
          /\ RawFields[2][p] < RawFields[1][p]
          /\ gt_distmaps[1].px[p] = RawFields[2][p]
    /\ \E p \in Pixels(TrainH, TrainW) :
          /\ RawFields[2][p] = 0
          /\ RawFields[1][p] > 0
          /\ gt_distmaps[1].px[p] = RawFields[1][p]
    /\ \E p \in Pixels(TrainH, TrainW) :
          /\ KernelFields[2][p] > 0
          /\ KernelFields[2][p] < KernelFields[1][p]
          /\ gt_distmaps[2].px[p] = KernelFields[2][p]

\* lines 396-398: the polygons kept, the annotation's first max_word_num.
Retained == 1..Min(Len(annotation.bboxes), max_word_num)

\* The kept polygon drawn last over pixel q of the loaded image, 0 when no
\* kept polygon covers q.
LastDrawn(q) ==
    LET S == {k \in Retained : q \in annotation.bboxes[k].px}
    IN  IF S = {} THEN 0 ELSE SetMax(S)

\* The ids in an instance map.
InstanceIds(R) == {R.px[p] : p \in DOMAIN R.px} \ {0}

\* The row and the mask the encoding loop gives the k-th annotated word.
RowOf(k) ==
    IF Skipped(annotation.words[k]) THEN PadRow ELSE EncodeWord(annotation.words[k])

\* C16: from the drawing on, through flip, rotation, crop, padding and
\* pruning, every nonzero value of the instance map is the index of a kept
\* polygon, at most max_word_num; a pixel holds the index of the kept
\* polygon drawn last over the pixel of the loaded image shown there, and
\* 0 where none was drawn or the image is filled, so no id is created,
\* renumbered or given to another polygon; the crop only removes ids; and
\* every id is a slot of the word mask, the word table and the box table,
\* which have max_word_num + 1 slots, the word table holding at the id's
\* slot the row of that polygon's word.
C16_IdsIndexKeptPolygons ==
    tr_pc \in {"drawn", "flipped", "rotated", "cropped", "done"} =>
        /\ Len(bboxes) <= max_word_num
        /\ InstanceIds(gt_instance) \subseteq Retained
        /\ \A p \in DOMAIN gt_instance.px :
              gt_instance.px[p] = IF img.px[p] = 0 THEN 0
                                  ELSE LastDrawn(SourceOf(img.px[p]))
        /\ Augmented =>
              /\ InstanceIds(gt_instance) \subseteq InstanceIds(gt_instance_before_crop)
              /\ InstanceIds(gt_instance_before_crop) \subseteq Retained
        /\ DOMAIN word_mask = 0..max_word_num
        /\ DOMAIN gt_words = 0..max_word_num
        /\ \A k \in InstanceIds(gt_instance) : gt_words[k] = RowOf(k)
        /\ tr_pc = "done" =>
              /\ DOMAIN gt_bboxes = 0..max_word_num
              /\ \A k \in InstanceIds(gt_instance) : gt_bboxes[k] # <<0, 0, 0, 0>>

\* C16 witness: an annotation one polygon longer than max_word_num, whose
\* last polygon is dropped; in the returned, augmented record a pixel the
\* dropped polygon covered holds a kept id or 0, a pixel two kept polygons
\* cover holds the later id, the image has moved, and an id pruned from
\* the word mask still labels its own pixels.
C16_Witness ==
    /\ tr_pc = "done"
    /\ is_transform
    /\ Len(annotation.bboxes) = max_word_num + 1
    /\ \E p \in DOMAIN img.px :
          /\ img.px[p] \notin {0, PixelCode(p, TrainW)}
          /\ SourceOf(img.px[p]) \in annotation.bboxes[max_word_num + 1].px
          /\ gt_instance.px[p] <= max_word_num
    /\ \E p \in DOMAIN img.px :
          /\ img.px[p] # 0
          /\ SourceOf(img.px[p]) \in annotation.bboxes[1].px \cap annotation.bboxes[2].px
          /\ gt_instance.px[p] = 2
    /\ \E k \in InstanceIds(gt_instance) :
          /\ word_mask[k] = 0
          /\ MaskBuilt(k) = 1

(***************************************************************************)
(* Concurrent calls on one dataset object                                  *)
(***************************************************************************)

\* Calls in flight at once, and samples of the dataset.
NCalls == 2
NSamples == 2

Calls == 1..NCalls

\* lines 303-366: the object CBN_TT.__init__ leaves (one path per sample;
\* img_size = 640 made a pair by lines 315-317, kernel_scale in tenths).
CBN_TT(split, transform, rec) ==
    [split |-> split,
     is_transform |-> transform,
     img_size |-> <<640, 640>>,
     kernel_scale |-> 7,
     short_size |-> 640,
     with_rec |-> rec,
     read_type |-> "pil",
     img_paths |-> [k \in 1..NSamples |-> <<"img", k>>],
     gt_paths |-> [k \in 1..NSamples |-> <<"poly_gt_img", k>>],
     voc |-> voc,
     char2id |-> [ch \in {voc[k] : k \in 1..Len(voc)} |-> char2id(ch)],
     id2char |-> [k \in 0..(Len(voc) - 1) |-> voc[k + 1]],
     max_word_num |-> max_word_num,
     max_word_len |-> max_word_len]

\* An object is named by who created it and the name it was first bound
\* to; the objects of the dataset were created by the constructor.
Constructor == 0

\* New that hands out an object kept on the dataset instead of a fresh one.
New_Shared(c, name) == <<Constructor, name>>

\* np.zeros / np.full / np.array / .copy() / [] / dict() / cv2 and PIL
\* results inside call c: a fresh object.
New(c, name) == <<c, name>>

\* The local names of call c after the names in binds are (re)bound to
\* objects made in the call.
Bind(env, binds, c) ==
    [n \in (DOMAIN env) \cup binds |-> IF n \in binds THEN New(c, n) ELSE env[n]]

\* The dataset after in-place writes into the objects refs: a container
\* field of the dataset that is written no longer holds what it held.
Store(ds, refs) ==
    [f \in DOMAIN ds |-> IF <<Constructor, f>> \in refs THEN <<>> ELSE ds[f]]

CallsInit ==
    /\ dataset \in {CBN_TT(s, t, r) : s \in {"train", "test"},
                                      t \in BOOLEAN, r \in BOOLEAN}
    /\ call_pc = [c \in Calls |-> "idle"]
    /\ call_index = [c \in Calls |-> 0]
    /\ call_method = [c \in Calls |-> "none"]
    /\ call_env = [c \in Calls |-> <<>>]
    /\ written = {}
    /\ ScaleIdle
    /\ ShrinkIdle
    /\ CropIdle
    /\ TrainIdle
    /\ RunIdle

\* The indices of the calls made so far.
Taken == {call_index[c] : c \in {d \in Calls : call_pc[d] # "idle"}}

\* One more call of prepare_train_data(index) or prepare_test_data(index),
\* on an index no other call has.
call_invoke(c) ==
    /\ call_pc[c] = "idle"
    /\ \E index \in (0..(NSamples - 1)) \ Taken :
          call_index' = [call_index EXCEPT ![c] = index]
    /\ \E method \in {"prepare_train_data", "prepare_test_data"} :
          call_method' = [call_method EXCEPT ![c] = method]
    /\ call_pc' = [call_pc EXCEPT ![c] = "invoked"]
    /\ UNCHANGED <<dataset, call_env, written, scaleVars, shrinkVars,
                   cropVars, tr_pc, wordVars, trainVars, runVars>>

\* A stretch of a call: the names it binds to objects it makes, the names
\* whose objects it writes in place, and where it stands afterwards.
Stretch(c, binds, writes, next) ==
    LET env == Bind(call_env[c], binds, c)
        refs == {env[n] : n \in writes}
    IN  /\ call_env' = [call_env EXCEPT ![c] = env]
        /\ written' = written \cup {<<c, r>> : r \in refs}
        /\ dataset' = Store(dataset, refs)
        /\ call_pc' = [call_pc EXCEPT ![c] = next]
        /\ UNCHANGED <<call_index, call_method, scaleVars, shrinkVars,
                       cropVars, tr_pc, wordVars, trainVars, runVars>>

\* self.img_paths[index] / self.gt_paths[index] can be read.
PathsReadable(c) ==
    /\ call_index[c] + 1 \in DOMAIN dataset.img_paths
    /\ call_index[c] + 1 \in DOMAIN dataset.gt_paths

\* lines 390-398: the paths are read, the image and the annotation loaded,
\* the lists clipped.
call_train_load(c) ==
    /\ call_pc[c] = "invoked"
    /\ call_method[c] = "prepare_train_data"
    /\ PathsReadable(c)
    /\ Stretch(c, {"img", "bboxes", "words"}, {}, "loaded")

\* lines 400-423: gt_words and word_mask are made and filled, one gt_word
\* per word; self.char2id is read.
call_train_encode(c) ==
    /\ call_pc[c] = "loaded"
    /\ call_method[c] = "prepare_train_data"
    /\ {"PAD", "UNK", "EOS"} \subseteq DOMAIN dataset.char2id
    /\ Stretch(c, {"gt_words", "word_mask", "gt_word"},
                  {"gt_words", "word_mask", "gt_word"}, "encoded")

\* The names lines 425-475 bind and write: the rescaled image, the
\* rasters, the scaled polygons (line 433 stores them back into bboxes).
DrawnNames ==
    {"gt_instance", "training_mask", "gt_distmap", "gt_distmaps", "tmp",
     "gt_kernels", "gt_kernel", "kernel_bboxes"}

\* lines 425-475 when shrink returns.
call_train_draw(c) ==
    /\ call_pc[c] = "encoded"
    /\ Stretch(c, DrawnNames \cup (IF dataset.is_transform THEN {"img"} ELSE {}),
                  (DrawnNames \ {"kernel_bboxes"}) \cup {"bboxes"}, "drawn")

\* lines 425-460 when shrink lets an exception escape: the call ends
\* without a record.
call_train_raise(c) ==
    /\ call_pc[c] = "encoded"
    /\ Stretch(c, {"gt_instance", "training_mask", "gt_distmap", "gt_distmaps",
                   "tmp", "gt_kernels", "gt_kernel"}
                    \cup (IF dataset.is_transform THEN {"img"} ELSE {}),
                  {"bboxes", "gt_instance", "training_mask", "gt_distmap",
                   "gt_distmaps", "tmp"}, "raised")

\* lines 477-491: the list imgs is made and its entries replaced in place
\* by the flip and the rotation; the crop returns new layers; word_mask is
\* written by update_word_mask.
call_train_augment(c) ==
    /\ call_pc[c] = "drawn"
    /\ dataset.is_transform
    /\ Stretch(c, {"imgs", "gt_instance_before_crop", "img", "gt_instance",
                   "training_mask", "gt_kernels", "gt_distmaps"},
                  {"imgs", "word_mask"}, "augmented")

\* lines 493-542: gt_text is a copy that is written, gt_bboxes is made and
\* filled, the record is made and, with with_rec, updated.
call_train_return(c) ==
    /\ \/ call_pc[c] = "augmented"
       \/ call_pc[c] = "drawn" /\ ~dataset.is_transform
    /\ Stretch(c, {"gt_text", "gt_bboxes", "data"},
                  {"gt_text", "gt_bboxes"}
                    \cup (IF dataset.with_rec THEN {"data"} ELSE {}),
                  "returned")

\* lines 545-548: the path is read, the image loaded, img_meta made.
call_test_load(c) ==
    /\ call_pc[c] = "invoked"
    /\ call_method[c] = "prepare_test_data"
    /\ call_index[c] + 1 \in DOMAIN dataset.img_paths
    /\ Stretch(c, {"img", "img_meta"}, {}, "loaded_test")

\* lines 550-553: the image is rescaled, img_meta updated.
call_test_scale(c) ==
    /\ call_pc[c] = "loaded_test"
    /\ Stretch(c, {"img"}, {"img_meta"}, "scaled")

\* lines 555-563: the image is normalised and the record made.
call_test_return(c) ==
    /\ call_pc[c] = "scaled"
    /\ Stretch(c, {"img", "data"}, {}, "returned")

CallsNext ==
    \E c \in Calls :
       \/ call_invoke(c)
       \/ call_train_load(c)
       \/ call_train_encode(c)
       \/ call_train_draw(c)
       \/ call_train_raise(c)
       \/ call_train_augment(c)
       \/ call_train_return(c)
       \/ call_test_load(c)
       \/ call_test_scale(c)
       \/ call_test_return(c)

SpecCalls == CallsInit /\ [][CallsNext]_vars

\* Every in-place write so far went into an object the writing call made.
OwnWrites == \A wr \in written : wr[2][1] = wr[1]

\* C12: in every interleaving of prepare_train_data / prepare_test_data
\* calls on distinct indices, every object a call writes in place was made
\* inside that call, and no step of any call changes the dataset object
\* (paths, vocabulary tables, limits, configuration fields).
C12_CallsLeaveDatasetAlone ==
    /\ []OwnWrites
    /\ [][dataset' = dataset]_vars

\* C12 witness: a train call that has filled its word tables while a test
\* call on another index has updated its metadata, neither having
\* returned, and the dataset still as constructed.
C12_Witness ==
    /\ \E c, d \in Calls :
          /\ call_method[c] = "prepare_train_data"
          /\ call_pc[c] = "encoded"
          /\ <<c, <<c, "gt_words">>>> \in written
          /\ call_method[d] = "prepare_test_data"
          /\ call_pc[d] = "scaled"
          /\ <<d, <<d, "img_meta">>>> \in written
          /\ call_index[c] # call_index[d]
    /\ dataset = CBN_TT(dataset.split, dataset.is_transform, dataset.with_rec)

(***************************************************************************)
(* train_cbn.py: construction and the training loop                        *)
(***************************************************************************)

\* Largest cfg.train_cfg.epoch, len(train_loader) and start_iter of SpecRun.
MaxEpoch == 2
MaxLoaderLen == 2
MaxStartIter == 1

\* cfg.train_cfg.schedule: a value and its Python type.
Str(v) == [type |-> "str", val |-> v]
Tuple(v) == [type |-> "tuple", val |-> v]
List(v) == [type |-> "list", val |-> v]
Schedules ==
    {Str("polylr"), Str("fixlr"), Str("cosine"), Tuple(<<1>>), Tuple(<<0, 1>>),
     List(<<1>>)}

\* The schedules adjust_learning_rate has a branch for.
Recognized(sch) ==
    \/ sch.type = "str" /\ sch.val \in {"polylr", "fixlr"}
    \/ sch.type = "tuple"

\* lines 280-299: get_vocabulary(voc_type), by its outcome.
get_vocabulary(voc_type) ==
    IF voc_type \in {"LOWERCASE", "ALLCASES", "ALLCASES_SYMBOLS"}
    THEN [raised |-> FALSE, error |-> "none"]
    ELSE [raised |-> TRUE, error |-> "KeyError"]

\* lines 153-156: lr = lr * 0.1 for every leading schedule[i] with
\* epoch >= schedule[i]; the count of these.
RECURSIVE Decays(_, _, _)
Decays(sch, ep, i) ==
    IF i > Len(sch) \/ ep < sch[i] THEN 0 ELSE 1 + Decays(sch, ep, i + 1)

\* lines 139-159: adjust_learning_rate, by the exception it raises or the
\* rate it stores in every parameter group: cfg.train_cfg.lr times
\* (1 - cur_iter / max_iter_num) ** 0.9, times 1, or times 0.1 ** decays.
\* A schedule that is neither a str nor a tuple leaves lr unbound at line 159.
adjust_learning_rate(sch, ep, it, n_epoch, len) ==
    IF sch.type = "str"
    THEN IF sch.val = "polylr"
         THEN [raised |-> FALSE, error |-> "none",
               lr |-> [kind |-> "poly", cur_iter |-> ep * len + it,
                       max_iter_num |-> n_epoch * len]]
         ELSE IF sch.val = "fixlr"
         THEN [raised |-> FALSE, error |-> "none", lr |-> [kind |-> "fix"]]
         ELSE [raised |-> TRUE, error |-> "ValueError", lr |-> <<>>]
    ELSE IF sch.type = "tuple"
    THEN [raised |-> FALSE, error |-> "none",
          lr |-> [kind |-> "step", decays |-> Decays(sch.val, ep, 1)]]
    ELSE [raised |-> TRUE, error |-> "UnboundLocalError", lr |-> <<>>]

\* The rate torch.optim.SGD / Adam is constructed with: cfg.train_cfg.lr.
ConstructedRate == [kind |-> "cfg"]

RunInit ==
    /\ run_pc = "start"
    /\ schedule \in Schedules
    /\ cfg_epoch \in 1..MaxEpoch
    /\ loader_len \in 1..MaxLoaderLen
    /\ start_iter \in 0..MaxStartIter
    /\ epoch = 0
    /\ iter = 0
    /\ fetched = 0
    /\ steps = 0
    /\ lr = <<>>
    /\ run_error = NoError
    /\ ScaleIdle
    /\ ShrinkIdle
    /\ CropIdle
    /\ TrainIdle
    /\ CallIdle

\* main, lines 188-196 with cbn_tt.py line 364: build_data_loader
\* constructs the dataset, which calls get_vocabulary('LOWERCASE').
main_build_data_loader ==
    /\ run_pc = "start"
    /\ LET r == get_vocabulary("LOWERCASE")
       IN  IF r.raised
           THEN /\ run_error' = [type |-> r.error, raised_in |-> "construction"]
                /\ run_pc' = "aborted"
           ELSE /\ run_pc' = "loader_built"
                /\ UNCHANGED run_error
    /\ UNCHANGED <<schedule, cfg_epoch, loader_len, start_iter, epoch, iter,
                   fetched, steps, lr, scaleVars, shrinkVars, cropVars,
                   tr_pc, wordVars, trainVars, callVars>>

\* main, lines 199-225: the model and the optimizer are built; the
\* schedule is not looked at.
main_build_optimizer ==
    /\ run_pc = "loader_built"
    /\ lr' = ConstructedRate
    /\ run_pc' = "epoch"
    /\ UNCHANGED <<schedule, cfg_epoch, loader_len, start_iter, epoch, iter,
                   fetched, steps, run_error, scaleVars, shrinkVars, cropVars,
                   tr_pc, wordVars, trainVars, callVars>>

\* train, line 46: the loader yields the next batch of the epoch.
train_fetch ==
    /\ run_pc = "epoch"
    /\ iter < loader_len
    /\ fetched' = fetched + 1
    /\ run_pc' = "fetched"
    /\ UNCHANGED <<schedule, cfg_epoch, loader_len, start_iter, epoch, iter,
                   steps, lr, run_error, scaleVars, shrinkVars, cropVars,
                   tr_pc, wordVars, trainVars, callVars>>

\* train, lines 48-51: an iteration below start_iter is skipped.
train_skip ==
    /\ run_pc = "fetched"
    /\ iter < start_iter
    /\ iter' = iter + 1
    /\ run_pc' = "epoch"
    /\ UNCHANGED <<schedule, cfg_epoch, loader_len, start_iter, epoch,
                   fetched, steps, lr, run_error, scaleVars, shrinkVars,
                   cropVars, tr_pc, wordVars, trainVars, callVars>>

\* train, line 57: adjust_learning_rate(optimizer, train_loader, epoch,
\* iter, cfg).
train_adjust ==
    /\ run_pc = "fetched"
    /\ iter >= start_iter
    /\ LET r == adjust_learning_rate(schedule, epoch, iter, cfg_epoch, loader_len)
       IN  IF r.raised
           THEN /\ run_error' = [type |-> r.error, raised_in |-> "iteration"]
                /\ run_pc' = "aborted"
                /\ UNCHANGED lr
           ELSE /\ lr' = r.lr
                /\ run_pc' = "adjusted"
                /\ UNCHANGED run_error
    /\ UNCHANGED <<schedule, cfg_epoch, loader_len, start_iter, epoch, iter,
                   fetched, steps, scaleVars, shrinkVars, cropVars,
                   tr_pc, wordVars, trainVars, callVars>>

\* train, lines 59-103: the forward pass, the losses and optimizer.step()
\* with the rate in force.
train_step ==
    /\ run_pc = "adjusted"
    /\ steps' = steps + 1
    /\ iter' = iter + 1
    /\ run_pc' = "epoch"
    /\ UNCHANGED <<schedule, cfg_epoch, loader_len, start_iter, epoch,
                   fetched, lr, run_error, scaleVars, shrinkVars, cropVars,
                   tr_pc, wordVars, trainVars, callVars>>

\* main, lines 227-238: the loader is exhausted, the checkpoint is saved
\* and the next epoch starts, or the run ends.
main_next_epoch ==
    /\ run_pc = "epoch"
    /\ iter = loader_len
    /\ epoch' = epoch + 1
    /\ iter' = 0
    /\ run_pc' = IF epoch + 1 < cfg_epoch THEN "epoch" ELSE "finished"
    /\ UNCHANGED <<schedule, cfg_epoch, loader_len, start_iter,
                   fetched, steps, lr, run_error, scaleVars, shrinkVars,
                   cropVars, tr_pc, wordVars, trainVars, callVars>>

RunNext ==
    \/ main_build_data_loader
    \/ main_build_optimizer
    \/ train_fetch
    \/ train_skip
    \/ train_adjust
    \/ train_step
    \/ main_next_epoch

SpecRun == RunInit /\ [][RunNext]_vars

\* C13 as stated: a schedule adjust_learning_rate has no branch for, like
\* an unknown vocabulary type, ends the run with an error raised during
\* construction: with such a schedule no batch is ever fetched, no
\* iteration is started, no error is raised inside an iteration and the
\* rate of the optimizer is never set from the schedule.
C13_ConfigErrorsAtConstruction ==
    /\ ~Recognized(schedule) /\ run_pc # "idle" =>
          /\ fetched = 0
          /\ steps = 0
          /\ run_pc \in {"start", "aborted"}
          /\ lr \in {<<>>, ConstructedRate}
    /\ run_error.type # "none" => run_error.raised_in = "construction"

\* What the run does with such a schedule: the error is raised by the
\* first adjust_learning_rate call that is not skipped, after the dataset
\* and the optimizer are built and at least one batch is fetched; no
\* optimizer step is taken and the rate stays the constructed one.  (When
\* start_iter skips every iteration the run ends without any error.)
UnrecognizedScheduleEndsFirstIteration ==
    /\ ~Recognized(schedule) /\ run_pc # "idle" =>
          /\ steps = 0
          /\ lr \in {<<>>, ConstructedRate}
          /\ run_pc # "adjusted"
          /\ run_pc = "finished" => start_iter >= loader_len
    /\ run_error.type # "none" =>
          /\ run_error.raised_in = "iteration"
          /\ fetched >= 1
          /\ ~Recognized(schedule)

====
